---- MODULE Spec2Model ----
(***************************************************************************)
(* SMAHeikinAshiCrossover (src/pyalgostrategypool/sma_heikin_ashi_crossover.py)*)
(* modelled as a state machine.  The strategy object holds two dicts,      *)
(* main_order and profit_order, keyed by instrument.  The host engine       *)
(* calls its hooks; the broker owns the orders the strategy placed, which   *)
(* the strategy only references.                                            *)
(***************************************************************************)
EXTENDS Integers, Sequences, FiniteSets

\* ---------------------------------------------------------------- bounds
MaxOrders == 4        \* orders the broker accepts in one run (two entries)
MaxPoints == 2        \* largest PROFIT_BOOKING_*_POINTS tried
MaxLots == 2          \* largest number_of_lots tried
LowPrice == 100       \* the entry price the broker reports for I1
HighPrice == 250      \* the entry price the broker reports for I2
MaxHalves == 10       \* parameter values tried at construction: -5, -4.5, ..., 5

Instruments == {"I1", "I2"}

\* the entry price the broker reports for a new main order of the instrument
Prices(instrument) == IF instrument = "I1" THEN {LowPrice} ELSE {HighPrice}

\* instrument.lot_size: supplied by the host, fixed per instrument
lot_size(instrument) == IF instrument = "I1" THEN 1 ELSE 25

\* Python's None, for a dict value and for "no order"
None == 0

\* pyalgotrading.constants, as far as this file uses them
DecisionContants == {"ENTRY", "EXIT"}
ActionConstants == {"ENTRY_BUY", "ENTRY_SELL", "EXIT_BUY", "EXIT_SELL", "NO_ACTION"}
StrategyMode == {"INTRADAY", "DELIVERY"}
BrokerOrderStatusConstants == {"OPEN", "COMPLETE"}
\* what a host may hand to an execution hook as sideband_info['action']:
\* any action constant, or the string 'EXIT' that exit-selection emits
SidebandActions == ActionConstants \cup {"EXIT"}

\* the candidate sets (instruments_bucket) a host may pass: no duplicates
Buckets == {<<"I1">>, <<"I1", "I2">>, <<"I2", "I1">>}

\* the candidate set of the host that follows the per-candle call order
HostBucket == <<"I1", "I2">>

\* the parameter sets tried: <<PROFIT_BOOKING_BUY_POINTS, PROFIT_BOOKING_SELL_POINTS,
\* number_of_lots>>, all positive integers (lines 28-30)
ParameterSets == {<<1, MaxPoints, MaxLots>>, <<MaxPoints, 1, 1>>}

\* SMA_PERIOD of the parameter sets tried
SmaPeriod == 20

\* A number given as a strategy parameter may be non-integral: a parameter value
\* x is held as the integer 2x, so that halves are exact.
Twice(n) == 2 * n

VARIABLES
    strategy_parameters,          \* self.strategy_parameters, each value x held as 2x
    initialized,                  \* initialize() has run: main_order/profit_order are dicts
    main_order,                   \* self.main_order: instrument -> order id or None
    profit_order,                 \* self.profit_order
    profit_booking_buy_points,    \* strategy parameters, fixed at construction
    profit_booking_sell_points,
    number_of_lots,
    strategy_mode,
    orders,                       \* the broker's book: order id -> order object
    crossover,                    \* what utils.crossover gave the last call, per instrument
                                  \* (0 for an instrument the call did not ask about)
    last,                         \* the last hook call: its arguments and its result
    selected_instruments_bucket,  \* what the last selection hook returned
    sideband_info_bucket,
    phase,                        \* the host's position in the per-candle call order
    queue                         \* the host's pending (instrument, sideband_info) pairs

vars == <<strategy_parameters, initialized, main_order, profit_order, profit_booking_buy_points,
          profit_booking_sell_points, number_of_lots, strategy_mode, orders,
          crossover, last, selected_instruments_bucket, sideband_info_bucket,
          phase, queue>>

config == <<strategy_parameters, profit_booking_buy_points, profit_booking_sell_points,
            number_of_lots, strategy_mode>>

\* dict.get(key): None for a missing key
Get(d, key) == IF key \in DOMAIN d THEN d[key] ELSE None

\* d[key] = value
Put(d, key, value) == [k \in DOMAIN d \cup {key} |-> IF k = key THEN value ELSE d[k]]

EmptyDict == [k \in {} |-> None]

\* a hook call as the host sees it: arguments, return value, what it raised,
\* and the order whose exit_position() it invoked
NoCall == [op |-> "none", instrument |-> "", action |-> "", raised |-> "",
           ret_bool |-> FALSE, ret_order |-> None, ret_action |-> "",
           exited |-> None, bucket |-> <<>>]

NoSignal == [i \in Instruments |-> 0]

\* the elements of a list
Range(seq) == {seq[k] : k \in 1..Len(seq)}

\* ---------------------------------------------------------------- __init__
\* Python's int(x) of the number held as twice: truncation towards zero
int(twice) == IF twice >= 0 THEN twice \div 2 ELSE -((-twice) \div 2)

\* the sanity check with zero let through
sanity_nonnegative(twice) == 0 <= twice /\ twice = Twice(int(twice))

\* lines 28-30: 0 < x == int(x), Python's chained comparison
sanity(twice) == 0 < twice /\ twice = Twice(int(twice))

\* lines 23-34: whether the three asserts pass, and the attributes then set
construct(parameters) ==
    IF /\ sanity(parameters.PROFIT_BOOKING_BUY_POINTS)
       /\ sanity(parameters.PROFIT_BOOKING_SELL_POINTS)
       /\ sanity(parameters.SMA_PERIOD)
    THEN [raised |-> "",
          profit_booking_buy_points |-> int(parameters.PROFIT_BOOKING_BUY_POINTS),
          profit_booking_sell_points |-> int(parameters.PROFIT_BOOKING_SELL_POINTS)]
    ELSE [raised |-> "AssertionError",
          profit_booking_buy_points |-> None,
          profit_booking_sell_points |-> None]

\* ------------------------------------------------------------ get_decision
\* get_decision with the two EXIT actions exchanged
get_decision_exits_swapped(crossover_value, decision) ==
    IF crossover_value = 1
    THEN (IF decision = "ENTRY" THEN "ENTRY_BUY" ELSE "EXIT_BUY")
    ELSE IF crossover_value = -1
    THEN (IF decision = "ENTRY" THEN "ENTRY_SELL" ELSE "EXIT_SELL")
    ELSE "NO_ACTION"

\* lines 77-84: the crossover value and the context give the action
get_decision(crossover_value, decision) ==
    IF crossover_value = 1
    THEN (IF decision = "ENTRY" THEN "ENTRY_BUY" ELSE "EXIT_SELL")
    ELSE IF crossover_value = -1
    THEN (IF decision = "ENTRY" THEN "ENTRY_SELL" ELSE "EXIT_BUY")
    ELSE "NO_ACTION"

\* ------------------------------------ strategy_select_instruments_for_entry
\* entry selection without the check for a current order
NoCurrentOrderUnchecked(mo, instrument) == TRUE

\* lines 106 and 108: no current order is going on for the instrument
NoCurrentOrder(mo, instrument) == Get(mo, instrument) = None

\* entry condition without the intraday restriction on short entries
EntryConditionAnyMode(action, mode) ==
    action = "ENTRY_BUY" \/ action = "ENTRY_SELL"

\* entry condition that only rules out short entries outside intraday mode
EntryConditionNotSell(action, mode) ==
    action # "ENTRY_SELL" \/ mode = "INTRADAY"

\* line 112: long entries always, short entries only intraday
EntryCondition(action, mode) ==
    action = "ENTRY_BUY" \/ (action = "ENTRY_SELL" /\ mode = "INTRADAY")

\* the loop inserting at the front of both buckets instead of appending
RECURSIVE EntryLoopFront(_, _, _, _)
EntryLoopFront(instruments_bucket, mo, cross, mode) ==
    IF instruments_bucket = <<>>
    THEN [instruments |-> <<>>, sideband |-> <<>>]
    ELSE LET instrument == Head(instruments_bucket)
             rest == EntryLoopFront(Tail(instruments_bucket), mo, cross, mode)
             action == get_decision(cross[instrument], "ENTRY")
         IN  IF NoCurrentOrder(mo, instrument) /\ EntryCondition(action, mode)
             THEN [instruments |-> rest.instruments \o <<instrument>>,
                   sideband |-> rest.sideband \o <<[action |-> action]>>]
             ELSE rest

\* lines 97-121: the loop over instruments_bucket, appending to both buckets
RECURSIVE EntryLoop(_, _, _, _)
EntryLoop(instruments_bucket, mo, cross, mode) ==
    IF instruments_bucket = <<>>
    THEN [instruments |-> <<>>, sideband |-> <<>>]
    ELSE LET instrument == Head(instruments_bucket)
             rest == EntryLoop(Tail(instruments_bucket), mo, cross, mode)
             action == get_decision(cross[instrument], "ENTRY")
         IN  IF NoCurrentOrder(mo, instrument) /\ EntryCondition(action, mode)
             THEN [instruments |-> <<instrument>> \o rest.instruments,
                   sideband |-> <<[action |-> action]>> \o rest.sideband]
             ELSE rest

\* ------------------------------------- strategy_select_instruments_for_exit
\* line 173: a current order is going on and its status is COMPLETE
CurrentOrderComplete(mo, ords, instrument) ==
    /\ Get(mo, instrument) # None
    /\ ords[Get(mo, instrument)].status = "COMPLETE"

\* exit condition pairing the decision with the opposite transaction type
ExitConditionOpposite(action, order_transaction_type) ==
    \/ (action = "EXIT_SELL" /\ order_transaction_type = "BUY")
    \/ (action = "EXIT_BUY" /\ order_transaction_type = "SELL")

\* lines 180-181: the decision paired with the order's own transaction type
ExitCondition(action, order_transaction_type) ==
    \/ (action = "EXIT_SELL" /\ order_transaction_type = "SELL")
    \/ (action = "EXIT_BUY" /\ order_transaction_type = "BUY")

\* lines 163-190: the loop over instruments_bucket; the sideband is {'action': 'EXIT'}
RECURSIVE ExitLoop(_, _, _, _)
ExitLoop(instruments_bucket, mo, ords, cross) ==
    IF instruments_bucket = <<>>
    THEN [instruments |-> <<>>, sideband |-> <<>>]
    ELSE LET instrument == Head(instruments_bucket)
             rest == ExitLoop(Tail(instruments_bucket), mo, ords, cross)
         IN  IF /\ CurrentOrderComplete(mo, ords, instrument)
                /\ ExitCondition(get_decision(cross[instrument], "EXIT"),
                                 ords[Get(mo, instrument)].order_transaction_type)
             THEN [instruments |-> <<instrument>> \o rest.instruments,
                   sideband |-> <<[action |-> "EXIT"]>> \o rest.sideband]
             ELSE rest

\* ------------------------------------------------------------- the broker
\* broker.BuyOrderRegular / broker.SellOrderRegular: the order object the broker
\* hands back.  A MARKET order carries no price; entry_price is what the broker
\* reports for it.
Order(instrument, order_transaction_type, order_variety, quantity, price, position, related_order, entry_price) ==
    [instrument |-> instrument, order_transaction_type |-> order_transaction_type,
     order_variety |-> order_variety, quantity |-> quantity, price |-> price,
     position |-> position, related_order |-> related_order,
     entry_price |-> entry_price, status |-> "OPEN"]

\* ------------------------------------------------ strategy_enter_position
\* quantity without the instrument's lot size
qtyLotsOnly(lots, instrument) == lots

\* line 130: quantity formula
qty(lots, instrument) == lots * lot_size(instrument)

\* line 136: limit price of the profit order of a buy
BuyProfitPrice(entry_price, buy_points) == entry_price + buy_points

\* profit price of a sell with the points added, as for a buy
SellProfitPriceAdded(entry_price, sell_points) == entry_price + sell_points

\* line 142: limit price of the profit order of a sell
SellProfitPrice(entry_price, sell_points) == entry_price - sell_points

\* enter_position without the sanity branch: any action other than ENTRY_BUY
\* is taken as a sell
enter_position_else_sell(mo, po, ords, lots, buy_points, sell_points, instrument, sideband_info, entry_price) ==
    LET main == Len(ords) + 1
        profit == Len(ords) + 2
        quantity == qty(lots, instrument)
        buy == sideband_info.action = "ENTRY_BUY"
        price == IF buy THEN BuyProfitPrice(entry_price, buy_points)
                 ELSE SellProfitPrice(entry_price, sell_points)
    IN  [main_order |-> Put(mo, instrument, main),
         profit_order |-> Put(po, instrument, profit),
         orders |-> ords \o
             <<Order(instrument, IF buy THEN "BUY" ELSE "SELL", "MARKET", quantity,
                     None, "ENTER", None, entry_price),
               Order(instrument, IF buy THEN "SELL" ELSE "BUY", "LIMIT", quantity,
                     price, "EXIT", main, price)>>,
         ret_order |-> main, raised |-> ""]

\* lines 130-150: the state after the call, its return value and what it raised.
\* entry_price is the price the broker reports for the new main order.
enter_position(mo, po, ords, lots, buy_points, sell_points, instrument, sideband_info, entry_price) ==
    LET main == Len(ords) + 1
        profit == Len(ords) + 2
        quantity == qty(lots, instrument)
    IN  IF sideband_info.action = "ENTRY_BUY"
        THEN [main_order |-> Put(mo, instrument, main),
              profit_order |-> Put(po, instrument, profit),
              orders |-> ords \o
                  <<Order(instrument, "BUY", "MARKET", quantity, None, "ENTER",
                          None, entry_price),
                    Order(instrument, "SELL", "LIMIT", quantity,
                          BuyProfitPrice(entry_price, buy_points), "EXIT", main,
                          BuyProfitPrice(entry_price, buy_points))>>,
              ret_order |-> main, raised |-> ""]
        ELSE IF sideband_info.action = "ENTRY_SELL"
        THEN [main_order |-> Put(mo, instrument, main),
              profit_order |-> Put(po, instrument, profit),
              orders |-> ords \o
                  <<Order(instrument, "SELL", "MARKET", quantity, None, "ENTER",
                          None, entry_price),
                    Order(instrument, "BUY", "LIMIT", quantity,
                          SellProfitPrice(entry_price, sell_points), "EXIT", main,
                          SellProfitPrice(entry_price, sell_points))>>,
              ret_order |-> main, raised |-> ""]
        ELSE [main_order |-> mo, profit_order |-> po, orders |-> ords,
              ret_order |-> None, raised |-> "SystemExit"]

\* ------------------------------------------------- strategy_exit_position
\* the exit hook acting on whatever sideband action it is given
ExitActionRecognizedAny(action) == TRUE

\* line 198: the sideband actions the hook acts on
ExitActionRecognized(action) == action \in {"EXIT_BUY", "EXIT_SELL"}

\* the exit clearing the main order of every instrument
ClearedOrdersAll(mo, po, instrument) ==
    [main_order |-> [k \in DOMAIN mo |-> None], profit_order |-> po]

\* line 203: what the hook stores after the exit
ClearedOrders(mo, po, instrument) ==
    [main_order |-> Put(mo, instrument, None), profit_order |-> po]

\* lines 198-209: the state after the call, its return value, the order whose
\* exit_position() it invoked and what it raised.  self.main_order[instrument]
\* raises KeyError for a missing key, and None has no exit_position
\* (AttributeError).
exit_position(mo, po, instrument, sideband_info) ==
    IF ExitActionRecognized(sideband_info.action)
    THEN IF instrument \notin DOMAIN mo
         THEN [main_order |-> mo, profit_order |-> po, exited |-> None,
               ret_bool |-> FALSE, raised |-> "KeyError"]
         ELSE IF mo[instrument] = None
         THEN [main_order |-> mo, profit_order |-> po, exited |-> None,
               ret_bool |-> FALSE, raised |-> "AttributeError"]
         ELSE [main_order |-> ClearedOrders(mo, po, instrument).main_order,
               profit_order |-> ClearedOrders(mo, po, instrument).profit_order,
               exited |-> mo[instrument], ret_bool |-> TRUE, raised |-> ""]
    ELSE [main_order |-> mo, profit_order |-> po, exited |-> None,
          ret_bool |-> FALSE, raised |-> ""]

\* ------------------------------------------------------------ the hooks
\* raise SystemExit (line 147) ends the process: no hook runs after it
Running == last.raised # "SystemExit"

Call(op, instrument, action) ==
    [NoCall EXCEPT !.op = op, !.instrument = instrument, !.action = action]

\* get_historical_data and the indicator library (lines 67-74): any crossover
\* value for each instrument the call asks about
Histories(asked) ==
    {c \in [Instruments -> {-1, 0, 1}] : \A i \in Instruments \ asked : c[i] = 0}

\* initialize resetting main_order only
initialize_main_only ==
    /\ Running
    /\ initialized' = TRUE
    /\ main_order' = EmptyDict
    /\ profit_order' = (IF initialized THEN profit_order ELSE EmptyDict)
    /\ last' = Call("initialize", "", "")
    /\ crossover' = NoSignal
    /\ selected_instruments_bucket' = <<>>
    /\ sideband_info_bucket' = <<>>
    /\ UNCHANGED <<config, orders>>

\* lines 36-43
initialize ==
    /\ Running
    /\ initialized' = TRUE
    /\ main_order' = EmptyDict
    /\ profit_order' = EmptyDict
    /\ last' = Call("initialize", "", "")
    /\ crossover' = NoSignal
    /\ selected_instruments_bucket' = <<>>
    /\ sideband_info_bucket' = <<>>
    /\ UNCHANGED <<config, orders>>

\* lines 61-84, called on its own
GetDecision(instrument, decision, hist) ==
    /\ Running
    /\ crossover' = hist
    /\ last' = [Call("get_decision", instrument, decision) EXCEPT
                   !.ret_action = get_decision(hist[instrument], decision)]
    /\ selected_instruments_bucket' = <<>>
    /\ sideband_info_bucket' = <<>>
    /\ UNCHANGED <<initialized, main_order, profit_order, config, orders>>

\* lines 86-121
strategy_select_instruments_for_entry(instruments_bucket, hist) ==
    /\ Running
    /\ initialized
    /\ crossover' = hist
    /\ LET r == EntryLoop(instruments_bucket, main_order, hist, strategy_mode)
       IN  /\ selected_instruments_bucket' = r.instruments
           /\ sideband_info_bucket' = r.sideband
    /\ last' = [Call("select_entry", "", "") EXCEPT !.bucket = instruments_bucket]
    /\ UNCHANGED <<initialized, main_order, profit_order, config, orders>>

\* exit-selection that itself clears the main order of what it selects
select_for_exit_clearing(instruments_bucket, hist) ==
    /\ Running
    /\ initialized
    /\ crossover' = hist
    /\ LET r == ExitLoop(instruments_bucket, main_order, orders, hist)
       IN  /\ selected_instruments_bucket' = r.instruments
           /\ sideband_info_bucket' = r.sideband
           /\ main_order' = [k \in DOMAIN main_order |->
                                IF k \in Range(r.instruments) THEN None
                                ELSE main_order[k]]
    /\ last' = [Call("select_exit", "", "") EXCEPT !.bucket = instruments_bucket]
    /\ UNCHANGED <<initialized, profit_order, config, orders>>

\* lines 152-190
strategy_select_instruments_for_exit(instruments_bucket, hist) ==
    /\ Running
    /\ initialized
    /\ crossover' = hist
    /\ LET r == ExitLoop(instruments_bucket, main_order, orders, hist)
       IN  /\ selected_instruments_bucket' = r.instruments
           /\ sideband_info_bucket' = r.sideband
    /\ last' = [Call("select_exit", "", "") EXCEPT !.bucket = instruments_bucket]
    /\ UNCHANGED <<initialized, main_order, profit_order, config, orders>>

\* lines 123-150
strategy_enter_position(instrument, sideband_info, entry_price) ==
    /\ Running
    /\ initialized
    /\ LET r == enter_position(main_order, profit_order, orders, number_of_lots,
                               profit_booking_buy_points, profit_booking_sell_points,
                               instrument, sideband_info, entry_price)
       IN  /\ Len(r.orders) <= MaxOrders
           /\ main_order' = r.main_order
           /\ profit_order' = r.profit_order
           /\ orders' = r.orders
           /\ last' = [Call("enter", instrument, sideband_info.action) EXCEPT
                          !.ret_order = r.ret_order, !.raised = r.raised]
    /\ crossover' = NoSignal
    /\ selected_instruments_bucket' = <<>>
    /\ sideband_info_bucket' = <<>>
    /\ UNCHANGED <<initialized, config>>

\* lines 192-209
strategy_exit_position(instrument, sideband_info) ==
    /\ Running
    /\ initialized
    /\ LET r == exit_position(main_order, profit_order, instrument, sideband_info)
       IN  /\ main_order' = r.main_order
           /\ profit_order' = r.profit_order
           /\ last' = [Call("exit", instrument, sideband_info.action) EXCEPT
                          !.ret_bool = r.ret_bool, !.raised = r.raised,
                          !.exited = r.exited]
    /\ crossover' = NoSignal
    /\ selected_instruments_bucket' = <<>>
    /\ sideband_info_bucket' = <<>>
    /\ UNCHANGED <<initialized, config, orders>>

\* ------------------------------------------------------- the environment
\* the profit order linked to main order id has been filled: the broker has
\* closed the position
ProfitBooked(ords, id) ==
    \E k \in 1..Len(ords) : /\ ords[k].position = "EXIT"
                            /\ ords[k].related_order = id
                            /\ ords[k].status = "COMPLETE"

\* the broker fills an order: a main order at any time, its profit order once
\* the main order is complete
BrokerCompletes(id) ==
    /\ Running
    /\ orders[id].status = "OPEN"
    /\ orders[id].position = "EXIT" =>
           orders[orders[id].related_order].status = "COMPLETE"
    /\ orders' = [orders EXCEPT ![id].status = "COMPLETE"]
    /\ last' = Call("broker", "", "")
    /\ crossover' = NoSignal
    /\ selected_instruments_bucket' = <<>>
    /\ sideband_info_bucket' = <<>>
    /\ UNCHANGED <<initialized, main_order, profit_order, config>>

Broker == \E id \in 1..Len(orders) : BrokerCompletes(id) /\ UNCHANGED <<phase, queue>>

\* ------------------------------------------ any host: hooks in any order
\* lines 13-34: the state after construction
Constructed ==
    /\ \E ps \in ParameterSets :
           /\ strategy_parameters =
                  [PROFIT_BOOKING_BUY_POINTS |-> Twice(ps[1]),
                   PROFIT_BOOKING_SELL_POINTS |-> Twice(ps[2]),
                   SMA_PERIOD |-> Twice(SmaPeriod)]
           /\ construct(strategy_parameters).raised = ""
           /\ profit_booking_buy_points =
                  construct(strategy_parameters).profit_booking_buy_points
           /\ profit_booking_sell_points =
                  construct(strategy_parameters).profit_booking_sell_points
           /\ number_of_lots = ps[3]
    /\ strategy_mode \in StrategyMode
    /\ initialized = FALSE
    /\ main_order = EmptyDict
    /\ profit_order = EmptyDict
    /\ orders = <<>>
    /\ crossover = NoSignal
    /\ last = NoCall
    /\ selected_instruments_bucket = <<>>
    /\ sideband_info_bucket = <<>>
    /\ queue = <<>>

Init == Constructed /\ phase = "free"

CallInitialize == initialize /\ UNCHANGED <<phase, queue>>

CallGetDecision ==
    \E instrument \in Instruments, decision \in DecisionContants :
        \E hist \in Histories({instrument}) :
            GetDecision(instrument, decision, hist) /\ UNCHANGED <<phase, queue>>

CallSelectEntry ==
    \E b \in Buckets :
        \E hist \in Histories({i \in Range(b) : NoCurrentOrder(main_order, i)}) :
            /\ strategy_select_instruments_for_entry(b, hist)
            /\ UNCHANGED <<phase, queue>>

CallSelectExit ==
    \E b \in Buckets :
        \E hist \in Histories({i \in Range(b) :
                                  CurrentOrderComplete(main_order, orders, i)}) :
            /\ strategy_select_instruments_for_exit(b, hist)
            /\ UNCHANGED <<phase, queue>>

CallEnter ==
    \E instrument \in Instruments, action \in SidebandActions :
      \E p \in Prices(instrument) :
        /\ strategy_enter_position(instrument, [action |-> action], p)
        /\ UNCHANGED <<phase, queue>>

CallExit ==
    \E instrument \in Instruments, action \in SidebandActions :
        /\ strategy_exit_position(instrument, [action |-> action])
        /\ UNCHANGED <<phase, queue>>

Next ==
    \/ CallInitialize
    \/ CallGetDecision
    \/ CallSelectEntry
    \/ CallSelectExit
    \/ CallEnter
    \/ CallExit
    \/ Broker

Spec == Init /\ [][Next]_vars

\* ------------------- the engine: the fixed per-candle call order (section 6)
\* the pairs the engine hands to the execution hook, one by one
Pairs(instruments, sideband) ==
    [k \in 1..Len(instruments) |->
        [instrument |-> instruments[k], sideband_info |-> sideband[k]]]

After(rest, same, next) == IF rest = <<>> THEN next ELSE same

HostInit == Constructed /\ phase = "day_start"

\* initialize() at the start of every day
HostInitialize ==
    /\ phase \in {"day_start", "exit_select"}
    /\ initialize
    /\ phase' = "exit_select"
    /\ queue' = <<>>

HostSelectExit ==
    /\ phase = "exit_select"
    /\ \E hist \in Histories({i \in Range(HostBucket) :
                                 CurrentOrderComplete(main_order, orders, i)}) :
           strategy_select_instruments_for_exit(HostBucket, hist)
    /\ queue' = Pairs(selected_instruments_bucket', sideband_info_bucket')
    /\ phase' = After(queue', "exit_exec", "entry_select")

HostExit ==
    /\ phase = "exit_exec"
    /\ strategy_exit_position(Head(queue).instrument, Head(queue).sideband_info)
    /\ queue' = Tail(queue)
    /\ phase' = After(queue', "exit_exec", "entry_select")

HostSelectEntry ==
    /\ phase = "entry_select"
    /\ \E hist \in Histories({i \in Range(HostBucket) :
                                 NoCurrentOrder(main_order, i)}) :
           strategy_select_instruments_for_entry(HostBucket, hist)
    /\ queue' = Pairs(selected_instruments_bucket', sideband_info_bucket')
    /\ phase' = After(queue', "entry_exec", "exit_select")

HostEnter ==
    /\ phase = "entry_exec"
    /\ \E p \in Prices(Head(queue).instrument) :
           strategy_enter_position(Head(queue).instrument, Head(queue).sideband_info, p)
    /\ queue' = Tail(queue)
    /\ phase' = After(queue', "entry_exec", "exit_select")

HostNext ==
    \/ HostInitialize
    \/ HostSelectExit
    \/ HostExit
    \/ HostSelectEntry
    \/ HostEnter
    \/ Broker

HostSpec == HostInit /\ [][HostNext]_vars

\* ------------------------------------------------- construction on its own
\* the numbers tried as parameter values, each held as twice its value
ParameterValues == -MaxHalves..MaxHalves

\* before __init__: the parameters the host passes; no strategy object yet
NotConstructed ==
    /\ strategy_parameters \in [{"PROFIT_BOOKING_BUY_POINTS", "PROFIT_BOOKING_SELL_POINTS",
                                 "SMA_PERIOD"} -> ParameterValues]
    /\ profit_booking_buy_points = None
    /\ profit_booking_sell_points = None
    /\ number_of_lots = 1
    /\ strategy_mode = "INTRADAY"
    /\ initialized = FALSE
    /\ main_order = EmptyDict
    /\ profit_order = EmptyDict
    /\ orders = <<>>
    /\ crossover = NoSignal
    /\ last = NoCall
    /\ selected_instruments_bucket = <<>>
    /\ sideband_info_bucket = <<>>
    /\ phase = "free"
    /\ queue = <<>>

\* lines 13-34: SMAHeikinAshiCrossover(...)
Construct ==
    /\ last.op = "none"
    /\ LET r == construct(strategy_parameters)
       IN  /\ profit_booking_buy_points' = r.profit_booking_buy_points
           /\ profit_booking_sell_points' = r.profit_booking_sell_points
           /\ last' = [Call("__init__", "", "") EXCEPT !.raised = r.raised]
    /\ UNCHANGED <<strategy_parameters, number_of_lots, strategy_mode, initialized,
                   main_order, profit_order, orders, crossover,
                   selected_instruments_bucket, sideband_info_bucket, phase, queue>>

ConstructSpec == NotConstructed /\ [][Construct]_vars

\* ======================================================== the properties
Stored(d, instrument) == Get(d, instrument) # None

\* C1: exit-selection selects an instrument of the candidate set exactly when
\* its stored main order is non-null and COMPLETE and the crossover is +1
\* (EXIT_SELL) with a SELL main order or -1 (EXIT_BUY) with a BUY main order.
C1_ExitSelectionIff ==
    last.op = "select_exit" =>
        \A i \in Instruments :
            i \in Range(selected_instruments_bucket) <=>
                /\ i \in Range(last.bucket)
                /\ Stored(main_order, i)
                /\ orders[main_order[i]].status = "COMPLETE"
                /\ \/ /\ crossover[i] = 1
                      /\ orders[main_order[i]].order_transaction_type = "SELL"
                   \/ /\ crossover[i] = -1
                      /\ orders[main_order[i]].order_transaction_type = "BUY"

\* an exit-selection that selected one instrument and passed over another whose
\* complete main order got the other pairing
C1_Witness ==
    /\ last.op = "select_exit"
    /\ Len(selected_instruments_bucket) = 1
    /\ \E i \in Range(last.bucket) \ Range(selected_instruments_bucket) :
           /\ Stored(main_order, i)
           /\ orders[main_order[i]].status = "COMPLETE"
           /\ crossover[i] # 0

\* C2: entry-selection selects an instrument of the candidate set exactly when
\* its stored main order is null and the crossover is +1 (ENTRY_BUY), or -1
\* (ENTRY_SELL) while the strategy mode is INTRADAY.
C2_EntrySelectionIff ==
    last.op = "select_entry" =>
        \A i \in Instruments :
            i \in Range(selected_instruments_bucket) <=>
                /\ i \in Range(last.bucket)
                /\ ~Stored(main_order, i)
                /\ \/ crossover[i] = 1
                   \/ crossover[i] = -1 /\ strategy_mode = "INTRADAY"

\* an entry-selection outside intraday mode that selected a buy signal and
\* passed over a sell signal
C2_Witness ==
    /\ last.op = "select_entry"
    /\ strategy_mode # "INTRADAY"
    /\ Len(selected_instruments_bucket) = 1
    /\ \E i \in Range(last.bucket) \ Range(selected_instruments_bucket) :
           ~Stored(main_order, i) /\ crossover[i] = -1

\* C3: get_decision gives ENTRY_BUY / EXIT_SELL for +1, ENTRY_SELL / EXIT_BUY
\* for -1 and NO_ACTION for 0, in the ENTRY / EXIT context.
C3_DecisionTable ==
    last.op = "get_decision" =>
        LET c == crossover[last.instrument]
            decision == last.action
        IN  /\ (c = 1 /\ decision = "ENTRY") => last.ret_action = "ENTRY_BUY"
            /\ (c = 1 /\ decision = "EXIT") => last.ret_action = "EXIT_SELL"
            /\ (c = -1 /\ decision = "ENTRY") => last.ret_action = "ENTRY_SELL"
            /\ (c = -1 /\ decision = "EXIT") => last.ret_action = "EXIT_BUY"
            /\ c = 0 => last.ret_action = "NO_ACTION"

\* get_decision was called in EXIT context on a -1 crossover
C3_Witness ==
    /\ last.op = "get_decision"
    /\ last.action = "EXIT"
    /\ crossover[last.instrument] = -1

\* C4: under the engine's call order, strategy_exit_position called with the
\* sideband info exit-selection emitted invokes the exit, returns true and
\* leaves the instrument with no stored main order.
C4_SelectedExitExits ==
    last.op = "exit" =>
        /\ last.ret_bool
        /\ last.exited # None
        /\ ~Stored(main_order, last.instrument)

\* C5: after strategy_exit_position executed an exit (EXIT_BUY or EXIT_SELL,
\* returned true) the instrument's stored main order and profit order are null.
C5_ExitClearsBothOrders ==
    (last.op = "exit" /\ last.action \in {"EXIT_BUY", "EXIT_SELL"} /\ last.ret_bool) =>
        /\ ~Stored(main_order, last.instrument)
        /\ ~Stored(profit_order, last.instrument)

\* C6: a stored profit order comes with a stored main order, and is the
\* inverse-direction LIMIT order linked to that main order.
C6_ProfitOnlyWithMain ==
    \A i \in Instruments :
        Stored(profit_order, i) =>
            /\ Stored(main_order, i)
            /\ orders[profit_order[i]].related_order = main_order[i]
            /\ orders[profit_order[i]].order_variety = "LIMIT"
            /\ orders[profit_order[i]].order_transaction_type #
                   orders[main_order[i]].order_transaction_type

\* C7: the stored main order is non-null only while the position is open: not
\* once the broker has filled the linked profit order.
C7_MainOnlyWhileOpen ==
    \A i \in Instruments :
        Stored(main_order, i) => ~ProfitBooked(orders, main_order[i])

\* C8: under the engine's call order, entry-execution places a main order only
\* for an instrument whose stored main order is null: no stored main order is
\* overwritten.
C8_NoOverwrite ==
    [][(last'.op = "enter" /\ last'.raised = "") =>
           ~Stored(main_order, last'.instrument)]_vars

\* the engine has entered a second position while the first is still stored
C8_Witness ==
    /\ last.op = "enter"
    /\ last.raised = ""
    /\ \A i \in Instruments : Stored(main_order, i)

\* C9: an executed entry leaves a profit order placed right after the main
\* order, linked to it as its EXIT counterpart: a LIMIT sell at entry price +
\* PROFIT_BOOKING_BUY_POINTS for ENTRY_BUY, a LIMIT buy at entry price -
\* PROFIT_BOOKING_SELL_POINTS for ENTRY_SELL.
C9_ProfitOrderPrice ==
    (last.op = "enter" /\ last.raised = "") =>
        LET main == orders[main_order[last.instrument]]
            profit == orders[profit_order[last.instrument]]
        IN  /\ profit_order[last.instrument] = main_order[last.instrument] + 1
            /\ profit.related_order = main_order[last.instrument]
            /\ profit.position = "EXIT"
            /\ profit.order_variety = "LIMIT"
            /\ last.action = "ENTRY_BUY" =>
                   /\ profit.order_transaction_type = "SELL"
                   /\ profit.price = main.entry_price + profit_booking_buy_points
            /\ last.action = "ENTRY_SELL" =>
                   /\ profit.order_transaction_type = "BUY"
                   /\ profit.price = main.entry_price - profit_booking_sell_points

\* a sell entry was executed with sell points that differ from the buy points
C9_Witness ==
    /\ last.op = "enter"
    /\ last.raised = ""
    /\ last.action = "ENTRY_SELL"
    /\ profit_booking_sell_points # profit_booking_buy_points

\* C10: the main order of an executed entry has quantity number_of_lots *
\* lot_size, and its profit order the same quantity.
C10_Quantity ==
    (last.op = "enter" /\ last.raised = "") =>
        /\ orders[main_order[last.instrument]].quantity =
               number_of_lots * lot_size(last.instrument)
        /\ orders[profit_order[last.instrument]].quantity =
               orders[main_order[last.instrument]].quantity

\* an entry was executed with several lots of an instrument with a lot size
C10_Witness ==
    /\ last.op = "enter"
    /\ last.raised = ""
    /\ number_of_lots > 1
    /\ lot_size(last.instrument) > 1

\* C11: strategy_enter_position called with a sideband action other than
\* ENTRY_BUY or ENTRY_SELL raises SystemExit: the broker's book is unchanged
\* (no order placed), no order is returned, and the stored main and profit
\* orders of every instrument are unchanged.
C11_InvalidEntryAborts ==
    [][(last'.op = "enter" /\ last'.action \notin {"ENTRY_BUY", "ENTRY_SELL"}) =>
           /\ last'.raised = "SystemExit"
           /\ last'.ret_order = None
           /\ orders' = orders
           /\ main_order' = main_order
           /\ profit_order' = profit_order]_vars

\* strategy_enter_position aborted on the sideband of exit-selection while an
\* order was stored
C11_Witness ==
    /\ last.op = "enter"
    /\ last.action = "EXIT"
    /\ last.raised = "SystemExit"
    /\ \E i \in Instruments : Stored(main_order, i)

\* a parameter value (held as twice) is a positive integer
PositiveInteger(twice) == twice > 0 /\ twice % 2 = 0

\* C12: construction succeeds exactly when PROFIT_BOOKING_BUY_POINTS,
\* PROFIT_BOOKING_SELL_POINTS and SMA_PERIOD are all positive integers.
C12_ConstructionIff ==
    last.op = "__init__" =>
        (last.raised = "" <=>
            /\ PositiveInteger(strategy_parameters.PROFIT_BOOKING_BUY_POINTS)
            /\ PositiveInteger(strategy_parameters.PROFIT_BOOKING_SELL_POINTS)
            /\ PositiveInteger(strategy_parameters.SMA_PERIOD))

\* construction was refused for PROFIT_BOOKING_BUY_POINTS = 2.5 alone, the
\* other two parameters being positive integers
C12_Witness ==
    /\ last.op = "__init__"
    /\ last.raised = "AssertionError"
    /\ strategy_parameters.PROFIT_BOOKING_BUY_POINTS = 5
    /\ strategy_parameters.PROFIT_BOOKING_SELL_POINTS = Twice(4)
    /\ strategy_parameters.SMA_PERIOD = Twice(5)

\* C13: strategy_exit_position returns true exactly when it invoked the stored
\* main order's exit_position() and cleared the stored main order; on a
\* sideband action other than EXIT_BUY / EXIT_SELL it returns false, invokes
\* no exit and leaves the stored main and profit orders unchanged.
C13_ExitReturnValue ==
    [][last'.op = "exit" =>
           /\ last'.ret_bool <=>
                  /\ last'.exited # None
                  /\ last'.exited = Get(main_order, last'.instrument)
                  /\ Get(main_order', last'.instrument) = None
           /\ last'.action \notin {"EXIT_BUY", "EXIT_SELL"} =>
                  /\ ~last'.ret_bool
                  /\ last'.exited = None
                  /\ main_order' = main_order
                  /\ profit_order' = profit_order]_vars

\* strategy_exit_position returned false on the sideband of exit-selection
\* for an instrument with a stored main order
C13_Witness ==
    /\ last.op = "exit"
    /\ last.action = "EXIT"
    /\ ~last.ret_bool
    /\ Stored(main_order, last.instrument)

\* C14: after initialize no instrument has a stored main order or profit
\* order, whatever was stored before.
C14_InitializeResets ==
    last.op = "initialize" =>
        \A i \in Instruments : ~Stored(main_order, i) /\ ~Stored(profit_order, i)

\* initialize ran after both entries the broker accepts had been executed
C14_Witness ==
    /\ last.op = "initialize"
    /\ Len(orders) >= 4

\* C15: under the engine's call order, strategy_enter_position called with the
\* sideband info entry-selection emitted does not abort, places a MARKET main
\* order (BUY for ENTRY_BUY, SELL for ENTRY_SELL), stores it as the
\* instrument's main order and returns that order.
C15_SelectedEntryEnters ==
    last.op = "enter" =>
        /\ last.raised = ""
        /\ last.action \in {"ENTRY_BUY", "ENTRY_SELL"}
        /\ last.ret_order # None
        /\ Get(main_order, last.instrument) = last.ret_order
        /\ orders[last.ret_order].instrument = last.instrument
        /\ orders[last.ret_order].order_variety = "MARKET"
        /\ orders[last.ret_order].position = "ENTER"
        /\ last.action = "ENTRY_BUY" =>
               orders[last.ret_order].order_transaction_type = "BUY"
        /\ last.action = "ENTRY_SELL" =>
               orders[last.ret_order].order_transaction_type = "SELL"

\* the engine executed a short entry that entry-selection had selected
C15_Witness ==
    /\ last.op = "enter"
    /\ phase # "free"
    /\ last.action = "ENTRY_SELL"
    /\ orders[last.ret_order].order_transaction_type = "SELL"

\* C16: get_decision and the two selection hooks leave the stored main and
\* profit orders of every instrument unchanged and place or exit no order;
\* the stored orders change only in initialize, strategy_enter_position and
\* strategy_exit_position.
C16_SelectionIsReadOnly ==
    [][/\ last'.op \in {"get_decision", "select_entry", "select_exit"} =>
              /\ main_order' = main_order
              /\ profit_order' = profit_order
              /\ orders' = orders
              /\ last'.exited = None
       /\ (main_order' # main_order \/ profit_order' # profit_order) =>
              last'.op \in {"initialize", "enter", "exit"}]_vars

\* an exit-selection that selected an instrument, whose main order is still
\* stored afterwards
C16_Witness ==
    /\ last.op = "select_exit"
    /\ selected_instruments_bucket # <<>>
    /\ \A i \in Range(selected_instruments_bucket) : Stored(main_order, i)

\* the place of an instrument in a candidate list
Position(instruments_bucket, instrument) ==
    CHOOSE k \in 1..Len(instruments_bucket) : instruments_bucket[k] = instrument

\* C17: both selection hooks return two lists of equal length, the selected
\* instruments in the relative order of the candidate set; every sideband
\* entry of exit-selection is {action: "EXIT"}, and the k-th sideband entry of
\* entry-selection carries the action decided for the k-th selected instrument.
C17_ParallelLists ==
    last.op \in {"select_entry", "select_exit"} =>
        /\ Len(sideband_info_bucket) = Len(selected_instruments_bucket)
        /\ Range(selected_instruments_bucket) \subseteq Range(last.bucket)
        /\ \A a, b \in 1..Len(selected_instruments_bucket) :
               a < b => Position(last.bucket, selected_instruments_bucket[a]) <
                        Position(last.bucket, selected_instruments_bucket[b])
        /\ last.op = "select_exit" =>
               \A k \in 1..Len(sideband_info_bucket) :
                   sideband_info_bucket[k] = [action |-> "EXIT"]
        /\ last.op = "select_entry" =>
               \A k \in 1..Len(sideband_info_bucket) :
                   LET c == crossover[selected_instruments_bucket[k]]
                   IN  \/ c = 1 /\ sideband_info_bucket[k] = [action |-> "ENTRY_BUY"]
                       \/ c = -1 /\ sideband_info_bucket[k] = [action |-> "ENTRY_SELL"]

\* an entry-selection over <<I2, I1>> that selected both, one to buy and one to sell
C17_Witness ==
    /\ last.op = "select_entry"
    /\ last.bucket = <<"I2", "I1">>
    /\ Len(selected_instruments_bucket) = 2
    /\ sideband_info_bucket[1] # sideband_info_bucket[2]

\* C18: strategy_enter_position and strategy_exit_position called for an
\* instrument leave the stored main and profit orders of every other
\* instrument unchanged.
C18_ExecutionIsLocal ==
    [][last'.op \in {"enter", "exit"} =>
           \A j \in Instruments \ {last'.instrument} :
               /\ (j \in DOMAIN main_order') = (j \in DOMAIN main_order)
               /\ (j \in DOMAIN profit_order') = (j \in DOMAIN profit_order)
               /\ Get(main_order', j) = Get(main_order, j)
               /\ Get(profit_order', j) = Get(profit_order, j)]_vars

\* an exit was executed for one instrument while the other holds a main order
C18_Witness ==
    /\ last.op = "exit"
    /\ last.ret_bool
    /\ \E j \in Instruments \ {last.instrument} : Stored(main_order, j)

====
